---- MODULE Spec2Model ----
(***************************************************************************)
(* Mixpanel Event Exporter: the two Streamlit scripts of the repository,   *)
(* event_export_new.py ("new", with fetch_mixpanel_events) and             *)
(* event_export.py ("old", the inline run-export block).                   *)
(*                                                                         *)
(* A response body is a sequence of characters.  The text of one JSON      *)
(* object is abstracted to a single character "r1" .. "r7" (json.loads     *)
(* maps it to the object it denotes), "X" is a character that is not part  *)
(* of any JSON text, "SP" is a blank and "NL" a newline.  A body may end   *)
(* in a run of `pad` further blanks, kept as a count.                      *)
(*                                                                         *)
(* A JSON object is [top, props]: its top-level members in order, as      *)
(* <<key, value>> pairs, the value of a "properties" member being the      *)
(* placeholder DICT, and the members of that nested object.  A DataFrame   *)
(* is [columns, rows]: the column labels in order (labels may repeat, as   *)
(* pandas allows) and the rows, each a sequence of cell values aligned     *)
(* with the labels.  NaN is the missing value.                             *)
(***************************************************************************)
EXTENDS Integers, Sequences, FiniteSets, TLC

VARIABLES script, events_selected, transport, response, outcome, event_df, requests, runs

vars == <<script, events_selected, transport, response, outcome, event_df, requests, runs>>

\* ------------------------------------------------------------------ bounds
MaxLines == 3
MaxSessionLines == 1
MaxRuns == 2
MaxPad == 500

\* ------------------------------------------------------- program constants
StatusOK == 200
BodyPrefixLen == 500

\* ------------------------------------------------------------ input values
NaN == "NaN"
INSERT_ID == "$insert_id"

Scripts == {"new", "old"}

Whitespace == {"SP", "NL"}

\* The characters order the way Python orders the strings they stand for.
Alphabet == <<"1", "2", "a", "b", "e", "f">>

Ord(v) == CHOOSE i \in 1..Len(Alphabet) : Alphabet[i] = v

DICT == "{...}"
PROPERTIES == "properties"

Obj(top, props) == [top |-> top, props |-> props]

\* The JSON texts that occur in the modelled responses and the objects they denote.
RecordText ==
  [ r1 |-> Obj(<< <<"event", "e">>, <<PROPERTIES, DICT>> >>,
                << <<INSERT_ID, "b">>, <<"amount", "1">> >>),
    r2 |-> Obj(<< <<"event", "e">>, <<PROPERTIES, DICT>> >>,
                << <<INSERT_ID, "a">>, <<"amount", "1">> >>),
    r3 |-> Obj(<< <<"event", "e">>, <<PROPERTIES, DICT>> >>,
                << <<INSERT_ID, "a">>, <<"amount", "2">> >>),
    r4 |-> Obj(<< <<"event", "e">> >>, << >>),
    r5 |-> Obj(<< <<"event", "e">>, <<PROPERTIES, DICT>> >>, << <<"event", "f">> >>),
    r6 |-> Obj(<< <<"event", "f">>, <<INSERT_ID, "a">> >>, << >>),
    r7 |-> Obj(<< <<PROPERTIES, DICT>>, <<"event", "f">> >>, << <<"amount", "2">> >>) ]

RecordChars == DOMAIN RecordText

\* ------------------------------------------------------------ text helpers
Min(a, b) == IF a <= b THEN a ELSE b

RECURSIVE LStrip(_)
LStrip(s) == IF s # << >> /\ Head(s) \in Whitespace THEN LStrip(Tail(s)) ELSE s

RECURSIVE RStrip(_)
RStrip(s) ==
  IF s # << >> /\ s[Len(s)] \in Whitespace THEN RStrip(SubSeq(s, 1, Len(s) - 1)) ELSE s

\* str.strip() of the text chars followed by pad blanks.
Strip(text) == LStrip(RStrip(text.chars))

RECURSIVE Split(_)
\* str.split("\n"): the empty string splits into one empty line.
Split(s) ==
  IF \A i \in 1..Len(s) : s[i] # "NL"
  THEN << s >>
  ELSE LET i == CHOOSE k \in 1..Len(s) :
                  s[k] = "NL" /\ \A j \in 1..(k - 1) : s[j] # "NL"
       IN  << SubSeq(s, 1, i - 1) >> \o Split(SubSeq(s, i + 1, Len(s)))

TextLen(text) == Len(text.chars) + text.pad

\* text[:n]
Slice(text, n) ==
  IF n <= Len(text.chars)
  THEN [chars |-> SubSeq(text.chars, 1, n), pad |-> 0]
  ELSE [chars |-> text.chars, pad |-> Min(text.pad, n - Len(text.chars))]

\* json.loads accepts blanks around the one value of the line.
JsonValid(line) ==
  LET t == SelectSeq(line, LAMBDA c : c # "SP")
  IN  Len(t) = 1 /\ t[1] \in RecordChars

json_loads(line) == RecordText[SelectSeq(line, LAMBDA c : c # "SP")[1]]

\* ---------------------------------------------------------- pandas helpers
HasKey(pairs, k) == \E i \in 1..Len(pairs) : pairs[i][1] = k

Get(pairs, k) ==
  IF HasKey(pairs, k)
  THEN pairs[CHOOSE i \in 1..Len(pairs) : pairs[i][1] = k][2]
  ELSE NaN

RECURSIVE AddKeys(_, _)
AddKeys(cols, pairs) ==
  IF pairs = << >> THEN cols
  ELSE AddKeys(IF \E k \in 1..Len(cols) : cols[k] = Head(pairs)[1]
               THEN cols ELSE Append(cols, Head(pairs)[1]),
               Tail(pairs))

RECURSIVE UnionKeys(_, _)
UnionKeys(cols, dicts) ==
  IF dicts = << >> THEN cols ELSE UnionKeys(AddKeys(cols, Head(dicts)), Tail(dicts))

\* pd.DataFrame(list of dicts): the labels are the keys in first-seen order, a
\* key a dict lacks gives NaN.
DataFrame(dicts) ==
  LET cols == UnionKeys(<< >>, dicts)
  IN  [columns |-> cols,
       rows |-> [i \in 1..Len(dicts) |->
                   [k \in 1..Len(cols) |-> Get(dicts[i], cols[k])]]]

HasColumn(df, c) == \E k \in 1..Len(df.columns) : df.columns[k] = c

ColumnIdx(df, c) == {k \in 1..Len(df.columns) : df.columns[k] = c}

Keep(s, idx) == SelectSeq([k \in 1..Len(s) |-> <<k, s[k]>>], LAMBDA p : p[1] \in idx)

Project(s, idx) == LET kept == Keep(s, idx) IN [k \in 1..Len(kept) |-> kept[k][2]]

\* df.drop(columns=[c])
drop(df, c) ==
  LET idx == (1..Len(df.columns)) \ ColumnIdx(df, c)
  IN  [columns |-> Project(df.columns, idx),
       rows |-> [i \in 1..Len(df.rows) |-> Project(df.rows[i], idx)]]

\* pd.json_normalize(df["properties"]): a cell that is no dict (NaN, the record
\* had no "properties") normalises to the empty dict.
json_normalize(data_json) ==
  DataFrame([i \in 1..Len(data_json) |->
               IF Get(data_json[i].top, PROPERTIES) = DICT
               THEN data_json[i].props ELSE << >>])

\* pd.concat([a, b], axis=1) on the same index: the labels of both, repeated
\* labels kept.
concat(a, b) ==
  [columns |-> a.columns \o b.columns,
   rows |-> [i \in 1..Len(a.rows) |-> a.rows[i] \o b.rows[i]]]

SameKey(df, c, i, j) == \A k \in ColumnIdx(df, c) : df.rows[i][k] = df.rows[j][k]

drop_duplicates_none(df, c) == df

drop_duplicates_last(df, c) ==
  LET idx == {i \in 1..Len(df.rows) :
                \A j \in (i + 1)..Len(df.rows) : ~SameKey(df, c, i, j)}
  IN  [columns |-> df.columns, rows |-> Project(df.rows, idx)]

\* df.drop_duplicates(subset=c), keep="first": a row goes when an earlier row
\* has the same value in every column labelled c; NaN equals NaN.
drop_duplicates(df, c) ==
  LET idx == {i \in 1..Len(df.rows) : \A j \in 1..(i - 1) : ~SameKey(df, c, i, j)}
  IN  [columns |-> df.columns, rows |-> Project(df.rows, idx)]

\* The sort key order: strings as Python orders them, NaN after every string.
KeyLeq(a, b) == b = NaN \/ (a # NaN /\ Ord(a) <= Ord(b))

RECURSIVE Insert(_, _, _)
Insert(sorted, row, k) ==
  IF sorted = << >> THEN << row >>
  ELSE IF KeyLeq(Head(sorted)[k], row[k])
       THEN << Head(sorted) >> \o Insert(Tail(sorted), row, k)
       ELSE << row >> \o sorted

RECURSIVE SortRows(_, _)
SortRows(rows, k) ==
  IF rows = << >> THEN << >>
  ELSE Insert(SortRows(SubSeq(rows, 1, Len(rows) - 1), k), rows[Len(rows)], k)

sort_values_none(df, c) == df

\* df.sort_values(c) raises ValueError when the label c is not unique.
sort_values_ok(df, c) == Cardinality(ColumnIdx(df, c)) = 1

sort_values(df, c) ==
  [columns |-> df.columns,
   rows |-> SortRows(df.rows, CHOOSE k \in ColumnIdx(df, c) : TRUE)]

\* -------------------------------------------------------- results, inputs
EmptyText == [chars |-> << >>, pad |-> 0]

NoFrame == [columns |-> << >>, rows |-> << >>]

Raise(exc, status, body) == [exc |-> exc, status |-> status, body |-> body, df |-> NoFrame]

Return(df) == [exc |-> "", status |-> 0, body |-> EmptyText, df |-> df]

NoResponse == [status_code |-> 0, text |-> EmptyText]

NoOutcome == [shown |-> "none", exc |-> "", status |-> 0, body |-> EmptyText, rows |-> 0]

Shown(kind, r) ==
  [shown |-> kind, exc |-> r.exc, status |-> r.status, body |-> r.body,
   rows |-> Len(r.df.rows)]

NoTable == [present |-> FALSE, df |-> NoFrame]

\* ------------------------------------------------ the processing pipeline
\* The flattening of "properties" into top-level columns.
Flatten(data_json) ==
  LET df == DataFrame([i \in 1..Len(data_json) |-> data_json[i].top])
  IN  IF HasColumn(df, PROPERTIES)
      THEN concat(drop(df, PROPERTIES), json_normalize(data_json))
      ELSE df

\* The deduplication and sort by "$insert_id".
Dedup(df) ==
  IF HasColumn(df, INSERT_ID)
  THEN LET dd == drop_duplicates(df, INSERT_ID)
       IN  IF sort_values_ok(dd, INSERT_ID)
           THEN Return(sort_values(dd, INSERT_ID))
           ELSE Raise("ValueError", 0, EmptyText)
  ELSE Return(df)

ProcessLines_skip(lines) ==
  LET good == SelectSeq(lines, JsonValid)
  IN  Dedup(Flatten([i \in 1..Len(good) |-> json_loads(good[i])]))

\* [json.loads(line) for line in lines] and what follows it.
ProcessLines(lines) ==
  IF \E i \in 1..Len(lines) : ~JsonValid(lines[i])
  THEN Raise("JSONDecodeError", 0, EmptyText)
  ELSE Dedup(Flatten([i \in 1..Len(lines) |-> json_loads(lines[i])]))

StatusIsOK(status_code) == status_code = StatusOK

RemoteMessage(resp) == Raise("HTTPStatus", resp.status_code, Slice(resp.text, BodyPrefixLen))

IsNoData(lines) == lines = << >> \/ lines = << << >> >>

\* event_export_new.py: fetch_mixpanel_events, from requests.get on.
fetch_mixpanel_events(tr, resp) ==
  IF tr = "error" THEN Raise("RequestException", 0, EmptyText)
  ELSE IF ~StatusIsOK(resp.status_code) THEN RemoteMessage(resp)
  ELSE LET lines == Split(Strip(resp.text))
       IN  IF IsNoData(lines)
           THEN Raise("NoData", 0, EmptyText)
           ELSE ProcessLines(lines)

\* event_export.py: the request and the processing of the run-export block.
run_export(tr, resp) ==
  IF tr = "error" THEN Raise("RequestException", 0, EmptyText)
  ELSE IF resp.status_code = StatusOK
       THEN ProcessLines(Split(Strip(resp.text)))
       ELSE Raise("HTTPStatus", resp.status_code, EmptyText)

Attempts_retry(r) == IF r.exc \in {"", "NoData"} THEN 1 ELSE 2

\* The requests.get calls of one fetch: one, whatever comes back.
Attempts(r) == 1

KeepOnError_clear(r) == NoTable

\* session_state["event_df"] after a press that raised: not assigned.
KeepOnError(r) == event_df

\* What one press of Run does once the script has chosen its fetch: r is the
\* result of the one request the press makes.
Press(ev, tr, resp, r) ==
  /\ events_selected' = ev
  /\ runs' = runs + 1
  /\ IF ev = {}
     THEN /\ outcome' = [NoOutcome EXCEPT !.shown = "warning"]
          /\ transport' = "none"
          /\ response' = NoResponse
          /\ UNCHANGED <<event_df, requests>>
     ELSE /\ transport' = tr
          /\ response' = IF tr = "error" THEN NoResponse ELSE resp
          /\ requests' = requests + Attempts(r)
          /\ IF r.exc = ""
             THEN /\ outcome' = Shown("success", r)
                  /\ event_df' = [present |-> TRUE, df |-> r.df]
             ELSE /\ outcome' = Shown("error", r)
                  /\ event_df' = KeepOnError(r)
  /\ UNCHANGED script

\* event_export_new.py, "if run:".
MainNew(ev, tr, resp) ==
  script = "new" /\ Press(ev, tr, resp, fetch_mixpanel_events(tr, resp))

\* event_export.py, "if run:".
MainOld(ev, tr, resp) ==
  script = "old" /\ Press(ev, tr, resp, run_export(tr, resp))

\* ----------------------------------------------------------------- inputs
LineTexts ==
  {<< c >> : c \in RecordChars} \cup {<< "X" >>, << >>, << "SP" >>, << "r4", "SP" >>}

RECURSIVE Join(_)
Join(lines) ==
  IF Len(lines) = 1 THEN lines[1] ELSE lines[1] \o << "NL" >> \o Join(Tail(lines))

\* The lines the presses of a session draw from.
SessionLineTexts == {<< "r1" >>, << "r2" >>, << "r3" >>, << "r4" >>, << "X" >>, << >>}

LineSeqs(texts, n) == UNION {[1..m -> texts] : m \in 1..n}

Bodies(texts, n) == {Join(ls) : ls \in LineSeqs(texts, n)}

Responses(texts, n) ==
  {[status_code |-> StatusOK, text |-> [chars |-> b, pad |-> 0]] : b \in Bodies(texts, n)}
    \cup {[status_code |-> 500, text |-> [chars |-> b, pad |-> p]] :
             b \in Bodies(texts, n), p \in {0, MaxPad}}

\* ---------------------------------------------------- the session (Spec)
Init ==
  /\ script \in Scripts
  /\ events_selected = {"New Payment Made"}
  /\ transport = "none"
  /\ response = NoResponse
  /\ outcome = NoOutcome
  /\ event_df = NoTable
  /\ requests = 0
  /\ runs = 0

Chosen == {"New Payment Made"}

RunNew ==
  /\ runs < MaxRuns
  /\ \/ MainNew({}, "none", NoResponse)
     \/ MainNew(Chosen, "error", NoResponse)
     \/ \E resp \in Responses(SessionLineTexts, MaxSessionLines) : MainNew(Chosen, "ok", resp)

RunOld ==
  /\ runs < MaxRuns
  /\ \/ MainOld({}, "none", NoResponse)
     \/ MainOld(Chosen, "error", NoResponse)
     \/ \E resp \in Responses(SessionLineTexts, MaxSessionLines) : MainOld(Chosen, "ok", resp)

Next == RunNew \/ RunOld

Spec == Init /\ [][Next]_vars

\* ------------------------------------- one fetch of any response (SpecFetch)
InitFetch ==
  /\ script \in Scripts
  /\ events_selected = {"New Payment Made"}
  /\ \/ transport = "error" /\ response = NoResponse
     \/ transport = "ok" /\ response \in Responses(LineTexts, MaxLines)
  /\ outcome = NoOutcome
  /\ event_df = NoTable
  /\ requests = 0
  /\ runs = 0

CallNew == runs = 0 /\ MainNew(events_selected, transport, response)

CallOld == runs = 0 /\ MainOld(events_selected, transport, response)

NextFetch == CallNew \/ CallOld

SpecFetch == InitFetch /\ [][NextFetch]_vars

\* ------------------------------------------------------ what the claims read
Called == runs > 0 /\ events_selected # {} /\ transport = "ok"

Lines == Split(Strip(response.text))

HasData == Strip(response.text) # << >>

\* A status-200 response all of whose lines are JSON texts.
Valid200 ==
  /\ Called
  /\ response.status_code = StatusOK
  /\ HasData
  /\ \A i \in 1..Len(Lines) : JsonValid(Lines[i])

Records == [i \in 1..Len(Lines) |-> json_loads(Lines[i])]

Succeeded == outcome.shown = "success"

Table == event_df.df

IdsOf(rec) == {Get(rec.top, INSERT_ID), Get(rec.props, INSERT_ID)} \ {NaN}

RowIds(row) == {row[k] : k \in ColumnIdx(Table, INSERT_ID)} \ {NaN}

InputIds == UNION {IdsOf(Records[i]) : i \in 1..Len(Records)}

\* The row carries, under every label, exactly the values the record has for it.
RowIsRecord(row, rec) ==
  \A k \in 1..Len(Table.columns) :
    LET c == Table.columns[k]
    IN  {row[j] : j \in ColumnIdx(Table, c)} \ {NaN}
          = {Get(rec.top, c), Get(rec.props, c)} \ {NaN}

IsPrefix(p, t) ==
  /\ TextLen(p) <= TextLen(t)
  /\ Len(p.chars) <= Len(t.chars)
  /\ p.chars = SubSeq(t.chars, 1, Len(p.chars))
  /\ p.pad > 0 => p.chars = t.chars

\* ------------------------------------------------------------------ claims

\* C1: for a status-200 response of valid lines, the returned table has no two
\* rows with the same present $insert_id, and every $insert_id of the input
\* records is in exactly one row.
C1_UniqueIds ==
  (Valid200 /\ Succeeded) =>
    /\ \A i, j \in 1..Len(Table.rows) :
         i # j => RowIds(Table.rows[i]) \cap RowIds(Table.rows[j]) = {}
    /\ \A id \in InputIds :
         Cardinality({i \in 1..Len(Table.rows) : id \in RowIds(Table.rows[i])}) = 1

C1_Witness ==
  /\ Valid200 /\ Succeeded
  /\ Len(Records) = 3
  /\ Len(Table.rows) = 2
  /\ InputIds = {"a", "b"}

\* C2: with an $insert_id column the rows are in non-decreasing order of the
\* ids they carry; when no record carries an $insert_id the rows are the input
\* records, same count and same order.
C2_RowOrder ==
  (Valid200 /\ Succeeded) =>
    /\ HasColumn(Table, INSERT_ID) =>
         \A i, j \in 1..Len(Table.rows) :
           \A a \in RowIds(Table.rows[i]), b \in RowIds(Table.rows[j]) :
             i < j => Ord(a) <= Ord(b)
    /\ InputIds = {} =>
         /\ Len(Table.rows) = Len(Records)
         /\ \A i \in 1..Len(Records) : RowIsRecord(Table.rows[i], Records[i])

C2_Witness ==
  /\ Valid200 /\ Succeeded
  /\ Len(Records) = 2
  /\ IdsOf(Records[1]) = {"b"} /\ IdsOf(Records[2]) = {"a"}
  /\ RowIds(Table.rows[1]) = {"a"} /\ RowIds(Table.rows[2]) = {"b"}

C2_WitnessArrival ==
  /\ Valid200 /\ Succeeded
  /\ InputIds = {}
  /\ Len(Records) = 3
  /\ Records[1] # Records[2] /\ Records[2] # Records[3]

\* C3: a status-200 body with a line that is not valid JSON fails with a parse
\* error and leaves no table, wherever the line is.
C3_ParseAborts ==
  (/\ Called /\ response.status_code = StatusOK /\ HasData
   /\ \E i \in 1..Len(Lines) : ~JsonValid(Lines[i]))
    => /\ outcome.shown = "error"
       /\ outcome.exc = "JSONDecodeError"
       /\ event_df = NoTable

C3_Witness ==
  /\ Called /\ response.status_code = StatusOK
  /\ Len(Lines) = 3
  /\ JsonValid(Lines[1]) /\ JsonValid(Lines[2]) /\ ~JsonValid(Lines[3])
  /\ outcome.exc = "JSONDecodeError"

\* C4: a status other than 200 fails with a remote error whose message has the
\* status code and the first 500 characters of the body (all of a shorter
\* body), whatever the body is, and leaves no table.
C4_RemoteError ==
  (Called /\ response.status_code # StatusOK) =>
    /\ outcome.shown = "error"
    /\ outcome.exc = "HTTPStatus"
    /\ outcome.status = response.status_code
    /\ IsPrefix(outcome.body, response.text)
    /\ TextLen(outcome.body) = Min(TextLen(response.text), BodyPrefixLen)
    /\ event_df = NoTable

\* C4 for event_export_new.py alone.
C4_RemoteErrorNew == script = "new" => C4_RemoteError

C4_WitnessNew ==
  /\ script = "new" /\ Called /\ response.status_code # StatusOK
  /\ TextLen(response.text) > BodyPrefixLen
  /\ TextLen(outcome.body) = BodyPrefixLen

\* C5: a status-200 body that is empty once trimmed fails with the empty-result
\* error, not with a parse error, and leaves no table.
C5_EmptyResult ==
  (Called /\ response.status_code = StatusOK /\ ~HasData) =>
    /\ outcome.shown = "error"
    /\ outcome.exc = "NoData"
    /\ event_df = NoTable

\* C5 for event_export_new.py alone.
C5_EmptyResultNew == script = "new" => C5_EmptyResult

C5_WitnessNew ==
  /\ script = "new" /\ Called /\ response.status_code = StatusOK
  /\ response.text.chars # << >> /\ ~HasData
  /\ outcome.exc = "NoData"

\* C6: a press of Run with events selected makes exactly one request, whatever
\* comes back; a press with none selected makes no request.
C6_OneRequest ==
  [][/\ events_selected' # {} => requests' = requests + 1
     /\ events_selected' = {} => requests' = requests]_vars

C6_Witness ==
  /\ runs = 2 /\ requests = 2
  /\ outcome.shown = "error"
  /\ event_df.present

\* C7: a properties key equal to another top-level field name gives one column
\* of that name, holding the nested value, and no properties column.
C7_CollisionOverwrites ==
  (Valid200 /\ Succeeded) =>
    \A i \in 1..Len(Records) :
      \A p \in 1..Len(Records[i].props) :
        LET c == Records[i].props[p][1]
        IN  (c # PROPERTIES /\ HasKey(Records[i].top, c)) =>
              /\ Cardinality(ColumnIdx(Table, c)) = 1
              /\ ~HasColumn(Table, PROPERTIES)
              /\ Len(Records) = 1 =>
                   \A k \in ColumnIdx(Table, c) :
                     Table.rows[1][k] = Records[i].props[p][2]

\* C8: for a successful response whose $insert_id lives in properties, fetch
\* does not fail and every record without properties is a row of the table,
\* also when several records lack properties and dedup and sort run.
C8_RowsWithoutProperties ==
  (Valid200 /\ \A r \in 1..Len(Records) : ~HasKey(Records[r].top, INSERT_ID)) =>
    /\ Succeeded
    /\ Cardinality({i \in 1..Len(Table.rows) :
                      \E r \in 1..Len(Records) :
                        /\ ~HasKey(Records[r].top, PROPERTIES)
                        /\ RowIsRecord(Table.rows[i], Records[r])})
         >= Cardinality({r \in 1..Len(Records) : ~HasKey(Records[r].top, PROPERTIES)})

WithId(id) == {i \in 1..Len(Records) : id \in IdsOf(Records[i])}

Max(S) == CHOOSE x \in S : \A y \in S : y <= x

First(S) == CHOOSE x \in S : \A y \in S : x <= y

\* C9 as claimed: of the records sharing an $insert_id, the row kept is the
\* one that arrives last.
C9_LastKept ==
  (Valid200 /\ Succeeded) =>
    \A id \in InputIds :
      \E i \in 1..Len(Table.rows) :
        /\ id \in RowIds(Table.rows[i])
        /\ RowIsRecord(Table.rows[i], Records[Max(WithId(id))])

\* C9 as amended: of the records sharing an $insert_id, the row kept is the
\* one that arrives first.
C9_FirstKept ==
  (Valid200 /\ Succeeded) =>
    \A id \in InputIds :
      \E i \in 1..Len(Table.rows) :
        /\ id \in RowIds(Table.rows[i])
        /\ RowIsRecord(Table.rows[i], Records[First(WithId(id))])

C9_Witness ==
  /\ Valid200 /\ Succeeded
  /\ \E id \in InputIds :
       /\ Cardinality(WithId(id)) > 1
       /\ Records[First(WithId(id))] # Records[Max(WithId(id))]

\* C10: a successful press replaces the held table by the whole result of that
\* fetch; a rejected or failed press leaves the held table as it was.
C10_TableReplacedWholesale ==
  [][IF outcome'.shown = "success"
     THEN event_df' = [present |-> TRUE,
                       df |-> ProcessLines(Split(Strip(response'.text))).df]
     ELSE event_df' = event_df]_vars

C10_Witness ==
  /\ runs = 2
  /\ event_df.present
  /\ outcome.shown \in {"error", "warning"}

====
